---------------------------- MODULE Spec2Model ----------------------------
(***************************************************************************)
(* Entity decoding in the Go feature server:                               *)
(*   go/internal/feast/model/entity.go, NewEntityFromProto.                *)
(*                                                                         *)
(* A call of NewEntityFromProto is modelled statement by statement: the    *)
(* composite literal (lines 15-19), the test of len(proto.Spec.JoinKeys)   *)
(* (line 22), one iteration of the range loop per step, in any order the   *)
(* Go runtime may pick (lines 24-26), the legacy assignment (line 29) and  *)
(* the return (line 32).  Several calls run interleaved; each holds a      *)
(* pointer to its argument and a pointer to the Entity it allocated.       *)
(***************************************************************************)
EXTENDS Integers, FiniteSets, Sequences, TLC

VARIABLES
    protos,   \* heap of *core.Entity arguments: proto id -> proto.Spec
    arg,      \* call -> id of the proto it was handed (parameter `proto`)
    pc,       \* call -> position in NewEntityFromProto
    entity,   \* call -> local variable `entity` (0 = not yet assigned)
    heap,     \* allocated model.Entity objects: entity id -> Entity
    todo,     \* call -> keys the range loop has still to visit
    ret       \* call -> returned *Entity (0 = nothing returned yet)

vars == <<protos, arg, pc, entity, heap, todo, ret>>

---------------------------------------------------------------------------
(* Bounds of the model *)

\* number of NewEntityFromProto calls in flight
NumCalls == 2

\* largest number of entries of proto.Spec.JoinKeys
MaxKeys == 2

Calls == 1..NumCalls

---------------------------------------------------------------------------
(* Input domains *)

AllKeyNames == <<"driver_id", "rider_id", "trip_id", "zone_id">>

KeyNames == {AllKeyNames[i] : i \in 1..MaxKeys}

\* spec.Name: empty, and a name with upper case and surrounding blanks
Names == {"", " Trip "}

\* types.ValueType_Enum; INVALID is the enum's zero value
ValueTypes == {"INVALID", "INT64", "STRING"}

\* the message type of the values of proto.Spec.JoinKeys
JoinKeySpecs == [ValueType : ValueTypes]

JoinKeysMaps ==
    UNION {[S -> JoinKeySpecs] : S \in {T \in SUBSET KeyNames : Cardinality(T) <= MaxKeys}}

\* proto.Spec: name, deprecated join_key and value_type, join_keys
EntitySpecs ==
    [Name : Names, JoinKey : {""} \cup KeyNames, ValueType : ValueTypes,
     JoinKeys : JoinKeysMaps]

NoKeys == [k \in {} |-> "INVALID"]

NoSpecs == [k \in {} |-> [ValueType |-> "INVALID"]]

\* the specifications handed to concurrent calls
Scenarios ==
    { [Name |-> "driver", JoinKey |-> "driver_id", ValueType |-> "INT64",
       JoinKeys |-> NoSpecs],
      [Name |-> "trip", JoinKey |-> "", ValueType |-> "INVALID",
       JoinKeys |-> ("driver_id" :> [ValueType |-> "INT64"])
                    @@ ("rider_id" :> [ValueType |-> "STRING"])],
      [Name |-> "", JoinKey |-> "", ValueType |-> "INVALID",
       JoinKeys |-> NoSpecs],
      [Name |-> "rider", JoinKey |-> "rider_id", ValueType |-> "INT64",
       JoinKeys |-> ("rider_id" :> [ValueType |-> "STRING"])],
      [Name |-> " Trip ", JoinKey |-> "zone_id", ValueType |-> "STRING",
       JoinKeys |-> ("driver_id" :> [ValueType |-> "INT64"])
                    @@ ("rider_id" :> [ValueType |-> "INT64"])] }

---------------------------------------------------------------------------
(* The statements of NewEntityFromProto *)

\* a name as a normalising decoder would store it
NormalizedName(n) == IF n = " Trip " THEN "trip" ELSE n

\* the composite literal with the name normalised
EntityLiteralNormalized(spec) ==
    [Name |-> NormalizedName(spec.Name), JoinKey |-> spec.JoinKey, JoinKeys |-> NoKeys]

\* the composite literal without the backward-compatibility field
EntityLiteralNoJoinKey(spec) ==
    [Name |-> spec.Name, JoinKey |-> "", JoinKeys |-> NoKeys]

\* lines 15-19: &Entity{Name: ..., JoinKey: ..., JoinKeys: make(map...)}
EntityLiteral(spec) ==
    [Name |-> spec.Name, JoinKey |-> spec.JoinKey, JoinKeys |-> NoKeys]

\* every call reuses one Entity object
SharedEntityId(c) == 1

\* line 15: & allocates a fresh object for each call
NewEntityId(c) == c

\* the legacy pair takes priority whenever it is set
UseNewFormatUnlessLegacy(spec) ==
    Cardinality(DOMAIN spec.JoinKeys) > 0 /\ spec.JoinKey = ""

\* line 22: len(proto.Spec.JoinKeys) > 0
UseNewFormat(spec) == Cardinality(DOMAIN spec.JoinKeys) > 0

\* the loop body keeping only the entry it visits
RangeAssignOnly(e, spec, k) ==
    [e EXCEPT !.JoinKeys = (k :> spec.JoinKeys[k].ValueType)]

\* line 25: entity.JoinKeys[joinKeyName] = joinKeySpec.ValueType
RangeAssign(e, spec, k) ==
    [e EXCEPT !.JoinKeys = (k :> spec.JoinKeys[k].ValueType) @@ @]

\* the legacy assignment with the type left at the enum's zero value
LegacyAssignZeroType(e, spec) ==
    [e EXCEPT !.JoinKeys = (spec.JoinKey :> "INVALID") @@ @]

\* the legacy assignment skipped for an empty join key
LegacyAssignSkipEmpty(e, spec) ==
    IF spec.JoinKey = "" THEN e
    ELSE [e EXCEPT !.JoinKeys = (spec.JoinKey :> spec.ValueType) @@ @]

\* line 29: entity.JoinKeys[proto.Spec.JoinKey] = proto.Spec.ValueType
LegacyAssign(e, spec) ==
    [e EXCEPT !.JoinKeys = (spec.JoinKey :> spec.ValueType) @@ @]

RECURSIVE RangeAll(_, _, _)
\* lines 24-26 run to completion over the keys in S
RangeAll(e, spec, S) ==
    IF S = {} THEN e
    ELSE LET k == CHOOSE x \in S : TRUE
         IN  RangeAll(RangeAssign(e, spec, k), spec, S \ {k})

\* lines 14-33: the Entity one uninterrupted call returns
NewEntityFromProto(spec) ==
    IF UseNewFormat(spec)
    THEN RangeAll(EntityLiteral(spec), spec, DOMAIN spec.JoinKeys)
    ELSE LegacyAssign(EntityLiteral(spec), spec)

---------------------------------------------------------------------------
(* Initial states *)

InitCalls ==
    /\ pc = [c \in Calls |-> "entry"]
    /\ entity = [c \in Calls |-> 0]
    /\ heap = <<>>
    /\ todo = [c \in Calls |-> {}]
    /\ ret = [c \in Calls |-> 0]

\* calls decoding one specification, any of EntitySpecs
Init ==
    /\ protos \in [{1} -> EntitySpecs]
    /\ arg = [c \in Calls |-> 1]
    /\ InitCalls

\* one specification per call
InitConc ==
    /\ protos \in [Calls -> Scenarios]
    /\ arg = [c \in Calls |-> c]
    /\ InitCalls

---------------------------------------------------------------------------
(* Actions: one per statement *)

\* lines 15-19
Alloc(c) ==
    /\ pc[c] = "entry"
    /\ entity' = [entity EXCEPT ![c] = NewEntityId(c)]
    /\ heap' = (NewEntityId(c) :> EntityLiteral(protos[arg[c]])) @@ heap
    /\ pc' = [pc EXCEPT ![c] = "branch"]
    /\ UNCHANGED <<protos, arg, todo, ret>>

\* line 22, and the start of the range statement of line 24
Branch(c) ==
    /\ pc[c] = "branch"
    /\ IF UseNewFormat(protos[arg[c]])
       THEN /\ pc' = [pc EXCEPT ![c] = "range"]
            /\ todo' = [todo EXCEPT ![c] = DOMAIN protos[arg[c]].JoinKeys]
       ELSE /\ pc' = [pc EXCEPT ![c] = "legacy"]
            /\ todo' = todo
    /\ UNCHANGED <<protos, arg, entity, heap, ret>>

\* one iteration that also deletes the visited entry from the input
RangeStepConsume(c) ==
    /\ pc[c] = "range"
    /\ \E k \in todo[c] \cap DOMAIN protos[arg[c]].JoinKeys :
        /\ heap' = [heap EXCEPT ![entity[c]] = RangeAssign(@, protos[arg[c]], k)]
        /\ todo' = [todo EXCEPT ![c] = @ \ {k}]
        /\ protos' = [protos EXCEPT ![arg[c]].JoinKeys =
                         [x \in (DOMAIN @) \ {k} |-> @[x]]]
        /\ pc' = [pc EXCEPT ![c] = IF todo[c] = {k} THEN "return" ELSE "range"]
    /\ UNCHANGED <<arg, entity, ret>>

\* lines 24-26: one iteration, on whichever entry the runtime yields next
RangeStep(c) ==
    /\ pc[c] = "range"
    /\ \E k \in todo[c] :
        /\ heap' = [heap EXCEPT ![entity[c]] = RangeAssign(@, protos[arg[c]], k)]
        /\ todo' = [todo EXCEPT ![c] = @ \ {k}]
        /\ pc' = [pc EXCEPT ![c] = IF todo[c] = {k} THEN "return" ELSE "range"]
    /\ UNCHANGED <<protos, arg, entity, ret>>

\* line 29
Legacy(c) ==
    /\ pc[c] = "legacy"
    /\ heap' = [heap EXCEPT ![entity[c]] = LegacyAssign(@, protos[arg[c]])]
    /\ pc' = [pc EXCEPT ![c] = "return"]
    /\ UNCHANGED <<protos, arg, entity, todo, ret>>

\* line 32
Return(c) ==
    /\ pc[c] = "return"
    /\ ret' = [ret EXCEPT ![c] = entity[c]]
    /\ pc' = [pc EXCEPT ![c] = "done"]
    /\ UNCHANGED <<protos, arg, entity, heap, todo>>

Next ==
    \E c \in Calls :
        \/ Alloc(c)
        \/ Branch(c)
        \/ RangeStep(c)
        \/ Legacy(c)
        \/ Return(c)

Spec == Init /\ [][Next]_vars

SpecConc == InitConc /\ [][Next]_vars

---------------------------------------------------------------------------
(* Properties *)

Done(c) == pc[c] = "done"

\* the specification call c was handed
SpecOf(c) == protos[arg[c]]

\* the Entity call c returned
Result(c) == heap[ret[c]]

\* the values of a join_keys mapping, entry by entry
DeclaredTypes(spec) == [k \in DOMAIN spec.JoinKeys |-> spec.JoinKeys[k].ValueType]

\* C1: a call on a specification whose legacy join key and join_keys mapping
\* are both empty fails: it returns no Entity.
C1_BothEmptyFails ==
    \A c \in Calls :
        (Done(c) /\ SpecOf(c).JoinKey = "" /\ DOMAIN SpecOf(c).JoinKeys = {})
            => ret[c] = 0

\* C2: when the join_keys mapping is non-empty, the returned joinKeys has the
\* mapping's keys and each key's declared type, whatever the deprecated fields hold.
C2_NewMappingWins ==
    \A c \in Calls :
        (Done(c) /\ DOMAIN SpecOf(c).JoinKeys # {})
            => /\ ret[c] # 0
               /\ DOMAIN Result(c).JoinKeys = DOMAIN SpecOf(c).JoinKeys
               /\ \A k \in DOMAIN SpecOf(c).JoinKeys :
                      Result(c).JoinKeys[k] = SpecOf(c).JoinKeys[k].ValueType

\* a call has returned for a mapping that names the legacy key with another type
C2_Witness ==
    \E c \in Calls :
        /\ Done(c)
        /\ Cardinality(DOMAIN SpecOf(c).JoinKeys) = 2
        /\ SpecOf(c).JoinKey \in DOMAIN SpecOf(c).JoinKeys
        /\ SpecOf(c).JoinKeys[SpecOf(c).JoinKey].ValueType # SpecOf(c).ValueType
        /\ Result(c).JoinKeys[SpecOf(c).JoinKey] # SpecOf(c).ValueType

\* C3: when the join_keys mapping is empty and the legacy join_key is not, the
\* returned joinKeys is the single entry join_key -> value_type, as declared.
C3_LegacySingleEntry ==
    \A c \in Calls :
        (Done(c) /\ DOMAIN SpecOf(c).JoinKeys = {} /\ SpecOf(c).JoinKey # "")
            => /\ ret[c] # 0
               /\ DOMAIN Result(c).JoinKeys = {SpecOf(c).JoinKey}
               /\ Result(c).JoinKeys[SpecOf(c).JoinKey] = SpecOf(c).ValueType

\* a call has returned on the legacy path with a declared type other than the zero value
C3_Witness ==
    \E c \in Calls :
        /\ Done(c)
        /\ DOMAIN SpecOf(c).JoinKeys = {}
        /\ SpecOf(c).JoinKey = "driver_id"
        /\ SpecOf(c).ValueType = "STRING"
        /\ Result(c).JoinKeys = ("driver_id" :> "STRING")

\* C4: a call on a specification whose name is empty fails: it returns no Entity.
C4_EmptyNameFails ==
    \A c \in Calls : (Done(c) /\ SpecOf(c).Name = "") => ret[c] = 0

\* C5: every returned Entity has a non-empty joinKeys.
C5_JoinKeysNonEmpty ==
    \A c \in Calls :
        (Done(c) /\ ret[c] # 0) => Cardinality(DOMAIN Result(c).JoinKeys) >= 1

\* a call has returned an Entity for a specification with no legacy key and no mapping
C5_Witness ==
    \E c \in Calls :
        /\ Done(c)
        /\ ret[c] # 0
        /\ SpecOf(c).JoinKey = ""
        /\ DOMAIN SpecOf(c).JoinKeys = {}
        /\ DOMAIN Result(c).JoinKeys = {""}

\* C6: the returned Entity's name is spec.name, unchanged, on both paths.
C6_NameVerbatim ==
    \A c \in Calls : (Done(c) /\ ret[c] # 0) => Result(c).Name = SpecOf(c).Name

\* calls have returned, on either path, for a name with upper case and blanks
C6_Witness ==
    \E c \in Calls :
        /\ Done(c)
        /\ ret[c] # 0
        /\ SpecOf(c).Name = " Trip "
        /\ Result(c).Name = " Trip "

\* C7: no step of a call changes a specification.
C7_InputUnchanged == [][protos' = protos]_vars

\* every call has returned after ranging over a two-entry mapping that is still whole
C7_Witness ==
    /\ \A c \in Calls : Done(c)
    /\ \E c \in Calls :
        /\ Cardinality(DOMAIN SpecOf(c).JoinKeys) = 2
        /\ Cardinality(DOMAIN Result(c).JoinKeys) = 2
        /\ SpecOf(c).JoinKey # ""

Idle(d) == pc'[d] = pc[d] /\ todo'[d] = todo[d]

\* C9: interleaved calls do not interfere: a step leaves alone the Entity and the
\* result of every call that is not taking it, and each call returns the Entity
\* an uninterrupted call on its specification returns.
C9_NoInterference ==
    /\ [](\A c \in Calls :
            Done(c) => (ret[c] # 0 /\ Result(c) = NewEntityFromProto(SpecOf(c))))
    /\ [][\A d \in Calls :
            Idle(d) => /\ ret'[d] = ret[d]
                       /\ entity'[d] = entity[d]
                       /\ entity[d] # 0 => heap'[entity[d]] = heap[entity[d]]]_vars

\* two calls on different specifications, one per path, have both returned
C9_Witness ==
    \E c, d \in Calls :
        /\ Done(c) /\ Done(d)
        /\ DOMAIN SpecOf(c).JoinKeys = {}
        /\ Cardinality(DOMAIN SpecOf(d).JoinKeys) = 2
        /\ ret[c] # ret[d]

\* C10: the returned Entity's JoinKey is the specification's join_key on both
\* paths, and with a non-empty mapping it adds nothing to joinKeys.
C10_LegacyJoinKeyKept ==
    \A c \in Calls :
        (Done(c) /\ ret[c] # 0)
            => /\ Result(c).JoinKey = SpecOf(c).JoinKey
               /\ DOMAIN SpecOf(c).JoinKeys # {}
                    => Result(c).JoinKeys = DeclaredTypes(SpecOf(c))

\* a returned Entity whose JoinKey names no key of its joinKeys
C10_Witness ==
    \E c \in Calls :
        /\ Done(c)
        /\ ret[c] # 0
        /\ DOMAIN SpecOf(c).JoinKeys # {}
        /\ Result(c).JoinKey # ""
        /\ Result(c).JoinKey \notin DOMAIN Result(c).JoinKeys

=============================================================================
